---------------------------- MODULE Spec2Model ----------------------------
(***************************************************************************)
(* Model of video-mapper.go: the mapping of a native Brightcove video      *)
(* record to a serialized publication event, and the two adapters that     *)
(* call it (the queue consumer callback and the POST /map handler).        *)
(*                                                                         *)
(* Strings that end up inside JSON are sequences of one-character strings, *)
(* so that json.Marshal's escaping and a decoder's unescaping are          *)
(* computed character by character.  Error and log texts, header names     *)
(* and map keys are plain strings.                                         *)
(***************************************************************************)
EXTENDS Naturals, Sequences, FiniteSets

VARIABLES
    running,    \* the process is alive (no unrecovered panic so far)
    op,         \* the operation that produced this state
    msg,        \* the inbound message / request: [headers, body]
    args,       \* arguments of the call of mapBrightcoveVideo, if any
    ret,        \* what mapBrightcoveVideo returned, if called
    mapCalled,  \* the operation called mapBrightcoveVideo
    panicked,   \* the operation ended in a run-time panic
    logs,       \* log lines written by the operation
    resp,       \* what the operation wrote to the http.ResponseWriter
    produced    \* messages handed to the outbound producer so far

vars == <<running, op, msg, args, ret, mapCalled, panicked, logs, resp, produced>>

---------------------------------------------------------------------------
(* Bounds *)

MaxNameLen == 2

---------------------------------------------------------------------------
(* Program constants (video-mapper.go:22-25) *)

videoContentUriBase ==
    <<"h","t","t","p",":","/","/","v","i","d","e","o","-","m","a","p","p","e","r","-","i","w","-","u","k","-","p",".","s","v","c",".","f","t",".","c","o","m","/","v","i","d","e","o","/","m","o","d","e","l","/">>

brigthcoveAuthority ==
    <<"h","t","t","p",":","/","/","a","p","i",".","f","t",".","c","o","m","/","s","y","s","t","e","m","/","B","R","I","G","H","T","C","O","V","E">>

viodeMediaTypeBase ==
    <<"v","i","d","e","o","/">>

brightcoveOrigin ==
    <<"h","t","t","p",":","/","/","c","m","d","b",".","f","t",".","c","o","m","/","s","y","s","t","e","m","s","/","b","r","i","g","h","t","c","o","v","e">>

StatusBadRequest == 400

StatusOK == 200

(* JSON member names given by the struct tags (video-mapper.go:27-45) *)

K_contentUri ==
    <<"c","o","n","t","e","n","t","U","r","i">>

K_payload ==
    <<"p","a","y","l","o","a","d">>

K_lastModified ==
    <<"l","a","s","t","M","o","d","i","f","i","e","d">>

K_uuid ==
    <<"u","u","i","d">>

K_identifiers ==
    <<"i","d","e","n","t","i","f","i","e","r","s">>

K_authority ==
    <<"a","u","t","h","o","r","i","t","y">>

K_identifierValue ==
    <<"i","d","e","n","t","i","f","i","e","r","V","a","l","u","e">>

K_publishedDate ==
    <<"p","u","b","l","i","s","h","e","d","D","a","t","e">>

K_mediaType ==
    <<"m","e","d","i","a","T","y","p","e">>

K_publishReference ==
    <<"p","u","b","l","i","s","h","R","e","f","e","r","e","n","c","e">>

---------------------------------------------------------------------------
(* Characters.  InvalidByte stands for a byte that is not valid UTF-8      *)
(* (a Go string may hold one); ReplacementChar for U+FFFD.                 *)

InvalidByte == "0xFF"

ReplacementChar == "U+FFFD"

Max(S) == CHOOSE x \in S : \A y \in S : y <= x

RECURSIVE SeqsUpTo(_, _)
SeqsUpTo(A, n) ==
    IF n = 0 THEN {<<>>}
    ELSE LET shorter == SeqsUpTo(A, n - 1)
         IN  shorter \cup {Append(s, c) : s \in shorter, c \in A}

---------------------------------------------------------------------------
(* Values of map[string]interface{} as encoding/json builds them: a JSON   *)
(* string becomes a Go string, a number a float64, null a nil interface.   *)
(* Reading a key the map does not have yields the nil interface too.       *)

NilValue == [t |-> "nil", s |-> <<>>]

Float64Value == [t |-> "float64", s |-> <<>>]

StringValue(s) == [t |-> "string", s |-> s]

Lookup(m, key) == IF key \in DOMAIN m THEN m[key] ELSE NilValue

\* x.(string) in its one-result form succeeds only on a string; on anything
\* else, the nil interface included, it panics.
IsString(v) == v.t = "string"

\* m.Headers[k] and r.Header.Get(k): the empty string when k is not there.
Get(headers, name) == IF name \in DOMAIN headers THEN headers[name] ELSE <<>>

---------------------------------------------------------------------------
(* path/filepath and strings *)

IsPathSeparator(c) == c = "/"

RECURSIVE ExtScanAll(_, _)
ExtScanAll(path, i) ==
    IF i < 1 THEN <<>>
    ELSE IF path[i] = "." THEN SubSeq(path, i, Len(path))
    ELSE ExtScanAll(path, i - 1)

\* Ext without the stop at a path separator: the suffix from the last dot
\* of the whole string.
ExtOfWholeString(path) == ExtScanAll(path, Len(path))

RECURSIVE ExtScan(_, _)
ExtScan(path, i) ==
    IF i < 1 \/ IsPathSeparator(path[i]) THEN <<>>
    ELSE IF path[i] = "." THEN SubSeq(path, i, Len(path))
    ELSE ExtScan(path, i - 1)

\* filepath.Ext: the suffix beginning at the final dot in the final
\* element of path; empty if there is no dot.
Ext(path) == ExtScan(path, Len(path))

TrimPrefix(s, prefix) ==
    IF Len(s) >= Len(prefix) /\ SubSeq(s, 1, Len(prefix)) = prefix
    THEN SubSeq(s, Len(prefix) + 1, Len(s))
    ELSE s

---------------------------------------------------------------------------
(* encoding/json, encoder side.  json.Marshal writes struct fields in      *)
(* declaration order without white space and escapes string contents:      *)
(* quote and backslash get a backslash; <, > and & are written as a       *)
(* six-character hex escape, and so is an invalid UTF-8 byte, as the       *)
(* escape of U+FFFD.                                                       *)

HexEscape(d1, d2, d3, d4) == <<"\\", "u", d1, d2, d3, d4>>

EscapeChar(c) ==
    CASE c = "\""        -> <<"\\", "\"">>
      [] c = "\\"        -> <<"\\", "\\">>
      [] c = "<"         -> HexEscape("0", "0", "3", "c")
      [] c = ">"         -> HexEscape("0", "0", "3", "e")
      [] c = "&"         -> HexEscape("0", "0", "2", "6")
      [] c = InvalidByte -> HexEscape("f", "f", "f", "d")
      [] OTHER           -> <<c>>

\* The escapes of s[lo..hi], concatenated (halving keeps the nesting of
\* the evaluation shallow).
RECURSIVE EscapeRange(_, _, _)
EscapeRange(s, lo, hi) ==
    IF lo > hi THEN <<>>
    ELSE IF lo = hi THEN EscapeChar(s[lo])
    ELSE LET mid == (lo + hi) \div 2
         IN  EscapeRange(s, lo, mid) \o EscapeRange(s, mid + 1, hi)

Quote(s) == <<"\"">> \o EscapeRange(s, 1, Len(s)) \o <<"\"">>

Member(key, encodedValue) == Quote(key) \o <<":">> \o encodedValue

RECURSIVE JoinFrom(_, _)
JoinFrom(parts, i) ==
    IF i > Len(parts) THEN <<>>
    ELSE (IF i > 1 THEN <<",">> ELSE <<>>) \o parts[i] \o JoinFrom(parts, i + 1)

Object(members) == <<"{">> \o JoinFrom(members, 1) \o <<"}">>

Array(elements) == <<"[">> \o JoinFrom(elements, 1) \o <<"]">>

marshalIdentifier(i) ==
    Object(<< Member(K_authority, Quote(i.Authority)),
              Member(K_identifierValue, Quote(i.IdentifierValue)) >>)

marshalPayload(p) ==
    Object(<< Member(K_uuid, Quote(p.UUID)),
              Member(K_identifiers,
                     Array([j \in 1..Len(p.Identifiers) |->
                                marshalIdentifier(p.Identifiers[j])])),
              Member(K_publishedDate, Quote(p.PublishedDate)),
              Member(K_mediaType, Quote(p.MediaType)),
              Member(K_publishReference, Quote(p.PublishReference)),
              Member(K_lastModified, Quote(p.LastModified)) >>)

marshalEvent(e) ==
    Object(<< Member(K_contentUri, Quote(e.ContentUri)),
              Member(K_payload, Quote(e.Payload)),
              Member(K_lastModified, Quote(e.LastModified)) >>)

---------------------------------------------------------------------------
(* encoding/json, decoder side: what a reader of the produced bytes gets.  *)
(* A value is [t, v]: a string (v its characters), an array (v its         *)
(* elements) or an object (v its members [k, v] in document order).        *)

Failed(i) == [ok |-> FALSE, v |-> [t |-> "invalid", v |-> <<>>], next |-> i]

Unescape(hex) ==
    CASE hex = <<"0", "0", "3", "c">> -> "<"
      [] hex = <<"0", "0", "3", "e">> -> ">"
      [] hex = <<"0", "0", "2", "6">> -> "&"
      [] hex = <<"f", "f", "f", "d">> -> ReplacementChar
      [] OTHER                        -> "?"

KnownHex == {<<"0", "0", "3", "c">>, <<"0", "0", "3", "e">>,
             <<"0", "0", "2", "6">>, <<"f", "f", "f", "d">>}

Min(S) == CHOOSE x \in S : \A y \in S : x <= y

\* The number of consecutive backslashes that end right before position p,
\* none of them before position lo.
RECURSIVE RunBefore(_, _, _)
RunBefore(b, p, lo) ==
    IF p - 1 < lo \/ b[p - 1] # "\\" THEN 0 ELSE 1 + RunBefore(b, p - 1, lo)

\* In string contents that begin at lo, a backslash after an even number of
\* backslashes begins an escape sequence.
IsEscapeStart(b, p, lo) == b[p] = "\\" /\ RunBefore(b, p, lo) % 2 = 0

\* Position p belongs to an escape sequence that begins before it.
InEscape(b, p, lo) ==
    \/ p - 1 >= lo /\ IsEscapeStart(b, p - 1, lo)
    \/ \E k \in 2..5 : p - k >= lo /\ b[p - k + 1] = "u" /\ IsEscapeStart(b, p - k, lo)

EscapeWellFormed(b, p, hi) ==
    /\ p + 1 <= hi
    /\ \/ b[p + 1] \in {"\"", "\\", "/"}
       \/ b[p + 1] = "u" /\ p + 5 <= hi /\ SubSeq(b, p + 2, p + 5) \in KnownHex

\* The characters position p of the contents lo..hi stands for.  An invalid
\* byte is read as U+FFFD.
DecodedAt(b, p, lo) ==
    IF InEscape(b, p, lo) THEN <<>>
    ELSE IF IsEscapeStart(b, p, lo) THEN
        IF b[p + 1] = "u" THEN <<Unescape(SubSeq(b, p + 2, p + 5))>> ELSE <<b[p + 1]>>
    ELSE IF b[p] = InvalidByte THEN <<ReplacementChar>>
    ELSE <<b[p]>>

RECURSIVE DecodeRange(_, _, _, _)
DecodeRange(b, from, to, lo) ==
    IF from > to THEN <<>>
    ELSE IF from = to THEN DecodedAt(b, from, lo)
    ELSE LET mid == (from + to) \div 2
         IN  DecodeRange(b, from, mid, lo) \o DecodeRange(b, mid + 1, to, lo)

\* Reads the string whose opening quote is at position i - 1: its contents
\* run up to the first quote that no backslash escapes.
ReadChars(b, i) ==
    LET closing == {j \in i..Len(b) : b[j] = "\"" /\ RunBefore(b, j, i) % 2 = 0}
    IN  IF closing = {} THEN [ok |-> FALSE, s |-> <<>>, next |-> i]
        ELSE LET hi == Min(closing) - 1
             IN  IF \A p \in i..hi : IsEscapeStart(b, p, i) => EscapeWellFormed(b, p, hi)
                 THEN [ok |-> TRUE, s |-> DecodeRange(b, i, hi, i), next |-> hi + 2]
                 ELSE [ok |-> FALSE, s |-> <<>>, next |-> i]

RECURSIVE ReadValue(_, _)
RECURSIVE ReadMembers(_, _, _)
RECURSIVE ReadElements(_, _, _)

ReadValue(b, i) ==
    IF i > Len(b) THEN Failed(i)
    ELSE IF b[i] = "\"" THEN
        LET r == ReadChars(b, i + 1)
        IN  IF r.ok THEN [ok |-> TRUE, v |-> [t |-> "string", v |-> r.s], next |-> r.next]
            ELSE Failed(i)
    ELSE IF b[i] = "{" THEN
        IF i + 1 <= Len(b) /\ b[i + 1] = "}"
        THEN [ok |-> TRUE, v |-> [t |-> "object", v |-> <<>>], next |-> i + 2]
        ELSE ReadMembers(b, i + 1, <<>>)
    ELSE IF b[i] = "[" THEN
        IF i + 1 <= Len(b) /\ b[i + 1] = "]"
        THEN [ok |-> TRUE, v |-> [t |-> "array", v |-> <<>>], next |-> i + 2]
        ELSE ReadElements(b, i + 1, <<>>)
    ELSE Failed(i)

\* At position i a member "key":value is expected, then a comma or the
\* closing brace.
ReadMembers(b, i, acc) ==
    IF i > Len(b) \/ b[i] # "\"" THEN Failed(i)
    ELSE LET key == ReadChars(b, i + 1)
         IN  IF ~key.ok \/ key.next > Len(b) \/ b[key.next] # ":" THEN Failed(i)
             ELSE LET val == ReadValue(b, key.next + 1)
                      all == Append(acc, [k |-> key.s, v |-> val.v])
                  IN  IF ~val.ok \/ val.next > Len(b) THEN Failed(i)
                      ELSE IF b[val.next] = "," THEN ReadMembers(b, val.next + 1, all)
                      ELSE IF b[val.next] = "}"
                          THEN [ok |-> TRUE, v |-> [t |-> "object", v |-> all],
                                next |-> val.next + 1]
                      ELSE Failed(i)

ReadElements(b, i, acc) ==
    LET val == ReadValue(b, i)
        all == Append(acc, val.v)
    IN  IF ~val.ok \/ val.next > Len(b) THEN Failed(i)
        ELSE IF b[val.next] = "," THEN ReadElements(b, val.next + 1, all)
        ELSE IF b[val.next] = "]"
            THEN [ok |-> TRUE, v |-> [t |-> "array", v |-> all], next |-> val.next + 1]
        ELSE Failed(i)

\* The whole text must be one value.
Decode(b) ==
    LET r == ReadValue(b, 1)
    IN  IF r.ok /\ r.next = Len(b) + 1 THEN r.v ELSE Failed(1).v

HasMember(obj, key) ==
    obj.t = "object" /\ \E j \in 1..Len(obj.v) : obj.v[j].k = key

\* The member of that name (the last one, should there be several).
MemberOf(obj, key) ==
    obj.v[Max({j \in 1..Len(obj.v) : obj.v[j].k = key})].v

IsStringMember(obj, key) ==
    HasMember(obj, key) /\ MemberOf(obj, key).t = "string"

StringOf(obj, key) == MemberOf(obj, key).v

---------------------------------------------------------------------------
(* mapBrightcoveVideo (video-mapper.go:225-274).  The result is            *)
(* [outcome, err, bytes, warns]: outcome "ok" with the serialized event,   *)
(* "error" with the error's text and no bytes, or "panic" when a type      *)
(* assertion fails; warns are the lines it wrote to warnLogger.            *)

FieldNullError(field) ==
    field \o " field of native brightcove video JSON is null. Skipping message."

FileNameWarning ==
    "filename field of native brightcove video JSON is null, type will be video/."

Panic == [outcome |-> "panic", err |-> "", bytes |-> <<>>, warns |-> <<>>]

Rejected(text) == [outcome |-> "error", err |-> text, bytes |-> <<>>, warns |-> <<>>]

ContentUriWithoutUuid(uuid) == videoContentUriBase

ContentUri(uuid) == videoContentUriBase \o uuid

MediaType(fileName) == viodeMediaTypeBase \o TrimPrefix(Ext(fileName), <<".">>)

NewIdentifier(id) == [Authority |-> brigthcoveAuthority, IdentifierValue |-> id]

NewPayload(uuid, id, publishedDate, fileName, publishReference, lastModified) ==
    [UUID             |-> uuid,
     Identifiers      |-> <<NewIdentifier(id)>>,
     PublishedDate    |-> publishedDate,
     MediaType        |-> MediaType(fileName),
     PublishReference |-> publishReference,
     LastModified     |-> lastModified]

NewEvent(uuid, marshalledPayload, lastModified) ==
    [ContentUri   |-> ContentUri(uuid),
     Payload      |-> marshalledPayload,
     LastModified |-> lastModified]

mapBrightcoveVideo(brightcoveVideo, publishReference, lastModified) ==
    LET uuidV == Lookup(brightcoveVideo, "uuid")
        idV   == Lookup(brightcoveVideo, "id")
        dateV == Lookup(brightcoveVideo, "updated_at")
        nameV == Lookup(brightcoveVideo, "name")
    IN  IF ~IsString(uuidV) THEN Panic
        ELSE IF uuidV.s = <<>> THEN Rejected(FieldNullError("uuid"))
        ELSE IF ~IsString(idV) THEN Panic
        ELSE IF idV.s = <<>> THEN Rejected(FieldNullError("id"))
        ELSE IF ~IsString(dateV) THEN Panic
        ELSE IF dateV.s = <<>> THEN Rejected(FieldNullError("updated_at"))
        ELSE IF ~IsString(nameV) THEN Panic
        ELSE LET p == NewPayload(uuidV.s, idV.s, dateV.s, nameV.s,
                                 publishReference, lastModified)
                 e == NewEvent(uuidV.s, marshalPayload(p), lastModified)
             IN  [outcome |-> "ok",
                  err     |-> "",
                  bytes   |-> marshalEvent(e),
                  warns   |-> IF nameV.s = <<>> THEN <<FileNameWarning>> ELSE <<>>]

---------------------------------------------------------------------------
(* Inbound data.  A body is [kind, fields]; for the kinds that hold a JSON *)
(* object, fields gives for each key the raw JSON value [t, s].            *)

Keys == {"uuid", "id", "updated_at", "name"}

RawAbsent == [t |-> "absent", s |-> <<>>]

RawNull == [t |-> "null", s |-> <<>>]

RawNumber == [t |-> "number", s |-> <<>>]

RawString(s) == [t |-> "string", s |-> s]

NameAlphabet == {"B", ".", "/"}

Names == SeqsUpTo(NameAlphabet, MaxNameLen)

UuidSample == <<"u", "\"">>

IdSample == <<"7", "\\", InvalidByte>>

DateSample == <<"d", "&">>

RequestIdSample == <<"r", "<">>

TimestampSample == <<"t", InvalidByte>>

OtherOrigin ==
    <<"h","t","t","p",":","/","/","c","m","d","b",".","f","t",".","c","o","m","/","s","y","s","t","e","m","s","/","m","e","t","h","o","d","e","-","w","e","b","-","p","u","b">>

RawValues(key) ==
    CASE key = "uuid" ->
            {RawAbsent, RawNull, RawNumber, RawString(<<>>), RawString(UuidSample)}
      [] key = "id" ->
            {RawAbsent, RawString(<<>>), RawString(IdSample)}
      [] key = "updated_at" ->
            {RawAbsent, RawString(<<>>), RawString(DateSample)}
      [] key = "name" ->
            {RawAbsent, RawNumber} \cup {RawString(n) : n \in Names}

NoFields == [k \in Keys |-> RawAbsent]

Fields(uuid, id, date, name) ==
    [k \in Keys |->
        CASE k = "uuid"       -> uuid
          [] k = "id"         -> id
          [] k = "updated_at" -> date
          [] k = "name"       -> name]

ValidFields ==
    Fields(RawString(UuidSample), RawString(IdSample), RawString(DateSample),
           RawString(<<"B", ".", "B">>))

\* no body, truncated text, a JSON array, the JSON null, and an object
\* followed by further text
OtherBodies ==
    {[kind |-> k, fields |-> NoFields] : k \in {"empty", "malformed", "array", "null"}}
    \cup {[kind |-> "object+trailing", fields |-> ValidFields]}

ObjectBodies ==
    {[kind |-> "object", fields |-> Fields(u, i, d, n)] :
        u \in RawValues("uuid"), i \in RawValues("id"),
        d \in RawValues("updated_at"), n \in RawValues("name")}

Bodies == OtherBodies \cup ObjectBodies

BodyText(body) ==
    CASE body.kind = "empty"           -> ""
      [] body.kind = "malformed"       -> "{\"uuid\":"
      [] body.kind = "array"           -> "[1]"
      [] body.kind = "null"            -> "null"
      [] body.kind = "object"          -> "{...}"
      [] body.kind = "object+trailing" -> "{...} x"

HeaderNames == {"Origin-System-Id", "X-Request-Id", "Message-Timestamp"}

HeaderValues(name) ==
    CASE name = "Origin-System-Id"  -> {brightcoveOrigin, OtherOrigin}
      [] name = "X-Request-Id"      -> {<<>>, RequestIdSample}
      [] name = "Message-Timestamp" -> {<<>>, TimestampSample}

Headers ==
    UNION {{h \in [D -> UNION {HeaderValues(n) : n \in HeaderNames}] :
                \A n \in D : h[n] \in HeaderValues(n)} : D \in SUBSET HeaderNames}

Messages == [headers : Headers, body : Bodies]

\* The decoder stores a string with each invalid byte replaced by U+FFFD.
GoString(s) ==
    [j \in 1..Len(s) |-> IF s[j] = InvalidByte THEN ReplacementChar ELSE s[j]]

GoValue(raw) ==
    CASE raw.t = "string" -> StringValue(GoString(raw.s))
      [] raw.t = "number" -> Float64Value
      [] OTHER            -> NilValue

ObjectMap(fields) ==
    [k \in {x \in Keys : fields[x].t # "absent"} |-> GoValue(fields[k])]

NilMap == [k \in {} |-> NilValue]

\* json.Unmarshal into a map[string]interface{}: null leaves the map nil,
\* an object fills it, anything else (text after the value too) is an error.
Unmarshal(body) ==
    CASE body.kind = "object" -> [err |-> FALSE, m |-> ObjectMap(body.fields)]
      [] body.kind = "null"   -> [err |-> FALSE, m |-> NilMap]
      [] OTHER                -> [err |-> TRUE,  m |-> NilMap]

\* json.NewDecoder(r.Body).Decode reads the first value of the stream and
\* leaves what follows it unread.
DecoderDecode(body) ==
    CASE body.kind \in {"object", "object+trailing"} ->
            [err |-> FALSE, m |-> ObjectMap(body.fields)]
      [] body.kind = "null" -> [err |-> FALSE, m |-> NilMap]
      [] OTHER              -> [err |-> TRUE,  m |-> NilMap]

Records == {ObjectMap(b.fields) : b \in ObjectBodies} \cup {NilMap}

---------------------------------------------------------------------------
(* The adapters *)

NoArgs == [rec |-> NilMap, publishReference |-> <<>>, lastModified |-> <<>>]

NoRet == [outcome |-> "none", err |-> "", bytes |-> <<>>, warns |-> <<>>]

NoMessage == [headers |-> [n \in {} |-> <<>>], body |-> [kind |-> "empty", fields |-> NoFields]]

NoResponse == [written |-> FALSE, status |-> 0, body |-> <<>>]

LogLine(level, text, bytes) == [level |-> level, text |-> text, bytes |-> bytes]

WarnLines(texts) == [j \in 1..Len(texts) |-> LogLine("WARN", texts[j], <<>>)]

RequestIdMissingText ==
    "X-Request-Id not found in kafka message headers. Skipping message."

TimestampMissingText ==
    "Message-Timestamp not found in kafka message headers. Skipping message."

UnmarshalErrorText(body) ==
    "Video JSON from Brightcove couldn't be unmarshalled. Skipping invalid JSON: "
        \o BodyText(body)

OriginAcceptsAll(m) == TRUE

\* the test of video-mapper.go:197, negated
OriginAccepted(m) == Get(m.headers, "Origin-System-Id") = brightcoveOrigin

HeaderNeverMissing(value) == FALSE

\* publishReference == "", lastModified == ""
HeaderMissing(value) == value = <<>>

\* w.WriteHeader(code)
WriteHeader(w, code) ==
    IF w.written THEN w ELSE [written |-> TRUE, status |-> code, body |-> w.body]

\* w.Write(bytes): sends the header with status 200 first if none was sent
Write(w, bytes) ==
    LET h == WriteHeader(w, StatusOK)
    IN  [written |-> TRUE, status |-> h.status, body |-> h.body \o bytes]

Called(rec, publishReference, lastModified) ==
    [mapCalled |-> TRUE,
     args      |-> [rec |-> rec, publishReference |-> publishReference,
                    lastModified |-> lastModified],
     ret       |-> mapBrightcoveVideo(rec, publishReference, lastModified)]

NotCalled(result) == [mapCalled |-> FALSE, args |-> NoArgs, ret |-> result]

\* mapMessage (video-mapper.go:209-223)
mapMessage(m) ==
    LET u                == Unmarshal(m.body)
        publishReference == Get(m.headers, "X-Request-Id")
        lastModified     == Get(m.headers, "Message-Timestamp")
    IN  IF u.err THEN NotCalled(Rejected(UnmarshalErrorText(m.body)))
        ELSE IF HeaderMissing(publishReference)
            THEN NotCalled(Rejected(RequestIdMissingText))
        ELSE IF HeaderMissing(lastModified)
            THEN NotCalled(Rejected(TimestampMissingText))
        ELSE Called(u.m, publishReference, lastModified)

\* consume (video-mapper.go:196-207): what one call does.  sent are the
\* messages it hands to the producer: none, the call of SendMessage being
\* commented out.
consume(m) ==
    IF ~OriginAccepted(m)
    THEN [call |-> NotCalled(NoRet), panicked |-> FALSE, logs |-> <<>>, sent |-> <<>>]
    ELSE LET c == mapMessage(m)
         IN  [call     |-> c,
              panicked |-> c.ret.outcome = "panic",
              logs     |->
                  WarnLines(c.ret.warns) \o
                  (CASE c.ret.outcome = "error" ->
                            <<LogLine("WARN", "Mapping error: [" \o c.ret.err \o "]", <<>>)>>
                     [] c.ret.outcome = "ok" ->
                            <<LogLine("INFO", "Sending", c.ret.bytes)>>
                     [] OTHER -> <<>>),
              sent     |-> <<>>]

SkippedWithBadRequest(text) ==
    [call |-> NotCalled(NoRet), panicked |-> FALSE, logs |-> WarnLines(<<text>>),
     resp |-> WriteHeader(NoResponse, StatusBadRequest)]

\* mapHandler on a missing header (video-mapper.go:179-182, 184-187): a
\* warning, and a return that writes nothing.
Skipped(text) ==
    [call |-> NotCalled(NoRet), panicked |-> FALSE, logs |-> WarnLines(<<text>>),
     resp |-> NoResponse]

\* mapHandler (video-mapper.go:170-194): what one call does.
mapHandler(r) ==
    LET d                == DecoderDecode(r.body)
        publishReference == Get(r.headers, "X-Request-Id")
        lastModified     == Get(r.headers, "Message-Timestamp")
    IN  IF d.err
        THEN [call |-> NotCalled(NoRet), panicked |-> FALSE, logs |-> <<>>,
              resp |-> WriteHeader(NoResponse, StatusBadRequest)]
        ELSE IF HeaderMissing(publishReference) THEN Skipped(RequestIdMissingText)
        ELSE IF HeaderMissing(lastModified) THEN Skipped(TimestampMissingText)
        ELSE LET c == Called(d.m, publishReference, lastModified)
             IN  [call     |-> c,
                  panicked |-> c.ret.outcome = "panic",
                  logs     |-> WarnLines(c.ret.warns),
                  resp     |->
                      CASE c.ret.outcome = "error" ->
                               WriteHeader(NoResponse, StatusBadRequest)
                        [] c.ret.outcome = "ok" -> Write(NoResponse, c.ret.bytes)
                        [] OTHER -> NoResponse]

---------------------------------------------------------------------------
(* The program: main has sent one empty message to the producer           *)
(* (video-mapper.go:125-126) before the consumer and the HTTP listener     *)
(* start.  The consumer calls consume for each message it delivers, one    *)
(* at a time (ConcurrentProcessing: false); the HTTP server calls          *)
(* mapHandler for each POST /map.  The handlers share no state, so one     *)
(* record is followed at a time: op is "idle", then "delivered" or         *)
(* "requested" while msg is on its way to the handler, then "consume" or   *)
(* "mapHandler" once the handler has run.                                  *)

StartupMessage == [headers |-> [n \in {} |-> <<>>], body |-> <<>>]

Init ==
    /\ running = TRUE
    /\ op = "idle"
    /\ msg = NoMessage
    /\ args = NoArgs
    /\ ret = NoRet
    /\ mapCalled = FALSE
    /\ panicked = FALSE
    /\ logs = <<>>
    /\ resp = NoResponse
    /\ produced = <<StartupMessage>>

\* The consumer has read a message from the queue.
Deliver ==
    /\ running
    /\ op = "idle"
    /\ op' = "delivered"
    /\ msg' \in Messages
    /\ UNCHANGED <<running, args, ret, mapCalled, panicked, logs, resp, produced>>

\* The router has a POST /map for the handler.
Request ==
    /\ running
    /\ op = "idle"
    /\ op' = "requested"
    /\ msg' \in Messages
    /\ UNCHANGED <<running, args, ret, mapCalled, panicked, logs, resp, produced>>

\* v.consume(msg).  A panic in the callback is not recovered anywhere in
\* the program and ends the process.
Consume ==
    /\ running
    /\ op = "delivered"
    /\ LET o == consume(msg)
       IN  /\ op' = "consume"
           /\ args' = o.call.args
           /\ ret' = o.call.ret
           /\ mapCalled' = o.call.mapCalled
           /\ panicked' = o.panicked
           /\ logs' = o.logs
           /\ produced' = produced \o o.sent
           /\ running' = ~o.panicked
    /\ UNCHANGED <<msg, resp>>

\* v.mapHandler(w, r).  net/http recovers a panic of the handler and drops
\* the connection; the process goes on.
MapHandler ==
    /\ running
    /\ op = "requested"
    /\ LET o == mapHandler(msg)
       IN  /\ op' = "mapHandler"
           /\ args' = o.call.args
           /\ ret' = o.call.ret
           /\ mapCalled' = o.call.mapCalled
           /\ panicked' = o.panicked
           /\ logs' = o.logs
           /\ resp' = o.resp
    /\ UNCHANGED <<msg, produced, running>>

\* The handler has returned; the consumer loop and the server take the
\* next record.  Nothing of the record is kept.
NextRecord ==
    /\ running
    /\ op \in {"consume", "mapHandler"}
    /\ op' = "idle"
    /\ msg' = NoMessage
    /\ args' = NoArgs
    /\ ret' = NoRet
    /\ mapCalled' = FALSE
    /\ panicked' = FALSE
    /\ logs' = <<>>
    /\ resp' = NoResponse
    /\ UNCHANGED <<running, produced>>

Next == Deliver \/ Request \/ Consume \/ MapHandler \/ NextRecord

Spec == Init /\ [][Next]_vars

---------------------------------------------------------------------------
(* mapBrightcoveVideo on its own: any record the decoder can build, any    *)
(* request id and timestamp.                                               *)

InitMap ==
    /\ running = TRUE
    /\ op = "args"
    /\ msg = NoMessage
    /\ args \in [rec : Records,
                 publishReference : {<<>>, RequestIdSample},
                 lastModified : {<<>>, TimestampSample}]
    /\ ret = NoRet
    /\ mapCalled = FALSE
    /\ panicked = FALSE
    /\ logs = <<>>
    /\ resp = NoResponse
    /\ produced = <<StartupMessage>>

CallMap ==
    /\ op = "args"
    /\ LET c == Called(args.rec, args.publishReference, args.lastModified)
       IN  /\ op' = "mapBrightcoveVideo"
           /\ ret' = c.ret
           /\ mapCalled' = TRUE
           /\ panicked' = (c.ret.outcome = "panic")
           /\ logs' = WarnLines(c.ret.warns)
    /\ UNCHANGED <<running, msg, args, resp, produced>>

NextMap == CallMap

SpecMap == InitMap /\ [][NextMap]_vars

---------------------------------------------------------------------------
(* Properties *)

Required == {"uuid", "id", "updated_at"}

\* the key is not in the record, or holds the empty string
AbsentOrEmpty(rec, key) ==
    \/ key \notin DOMAIN rec
    \/ rec[key].t = "string" /\ rec[key].s = <<>>

NonEmptyString(rec, key) ==
    key \in DOMAIN rec /\ rec[key].t = "string" /\ rec[key].s # <<>>

RequiredValid(rec) == \A k \in Required : NonEmptyString(rec, k)

MapReturned == op = "mapBrightcoveVideo"

ConsumeStep == op = "delivered" /\ op' = "consume"

HeaderEmpty(m, name) == Get(m.headers, name) = <<>>

FromBrightcove(m) == Get(m.headers, "Origin-System-Id") = brightcoveOrigin

\* the rendering of the record the body holds, for a body that is an object
RecordOf(body) == ObjectMap(body.fields)

EventOf(bytes) == Decode(bytes)

PayloadOf(bytes) == Decode(StringOf(Decode(bytes), K_payload))

BadRequestResponse == [written |-> TRUE, status |-> StatusBadRequest, body |-> <<>>]

\* C1: a record in which uuid, id or updated_at is absent or empty is
\* rejected by mapBrightcoveVideo, for any request id and timestamp: it
\* returns the error that names such a field and no bytes.
C1_MissingRequiredRejected ==
    (MapReturned /\ \E k \in Required : AbsentOrEmpty(args.rec, k)) =>
        /\ ret.outcome = "error"
        /\ ret.bytes = <<>>
        /\ \E k \in Required :
              AbsentOrEmpty(args.rec, k) /\ ret.err = FieldNullError(k)

\* C2: whatever the shape of the record, a handler ends without a panic
\* and the process stays up to take the next record.
C2_RejectionsAreLocal ==
    op \in {"consume", "mapHandler"} => (~panicked /\ running)

\* C3: consume of a message with the Brightcove origin, both headers
\* non-empty and an object body with valid required fields hands exactly
\* one message to the producer: the serialized event under the inbound
\* headers.
C3_ValidMessageForwarded ==
    [][(/\ ConsumeStep
        /\ FromBrightcove(msg)
        /\ ~HeaderEmpty(msg, "X-Request-Id")
        /\ ~HeaderEmpty(msg, "Message-Timestamp")
        /\ msg.body.kind = "object"
        /\ RequiredValid(RecordOf(msg.body)))
       => (/\ ret'.outcome = "ok"
           /\ produced' = Append(produced, [headers |-> msg.headers,
                                            body    |-> ret'.bytes]))]_vars

\* C4: consume of a message whose Origin-System-Id is not the Brightcove
\* origin does nothing, whatever its body and other headers: nothing is
\* handed to the producer, nothing is parsed or mapped, nothing is logged,
\* and it does not panic.
C4_ForeignOriginDropped ==
    [][(ConsumeStep /\ ~FromBrightcove(msg))
       => (/\ produced' = produced
           /\ logs' = <<>>
           /\ ~mapCalled'
           /\ ret' = NoRet
           /\ ~panicked'
           /\ running')]_vars

C4_Witness ==
    /\ op = "consume"
    /\ Get(msg.headers, "Origin-System-Id") = OtherOrigin
    /\ msg.body.kind = "malformed"
    /\ HeaderEmpty(msg, "X-Request-Id")
    /\ logs = <<>>
    /\ produced = <<StartupMessage>>

\* C5: mapHandler answers 400 with an empty body when the body is missing
\* or not decodable (with or without the headers) and when the headers are
\* there and a required field is missing in the body; it answers 200 with
\* the serialized event exactly when the body decodes, both headers are
\* non-empty and the mapping succeeds; an error status never comes with
\* bytes.
C5_HandlerStatus ==
    op = "mapHandler" =>
        /\ msg.body.kind \in {"empty", "malformed", "array"}
              => resp = BadRequestResponse
        /\ (/\ msg.body.kind \in {"object", "object+trailing"}
            /\ ~HeaderEmpty(msg, "X-Request-Id")
            /\ ~HeaderEmpty(msg, "Message-Timestamp")
            /\ \E k \in Required : AbsentOrEmpty(RecordOf(msg.body), k))
              => resp = BadRequestResponse
        /\ (resp.written /\ resp.status = StatusOK)
              <=> (/\ msg.body.kind \in {"object", "object+trailing"}
                   /\ ~HeaderEmpty(msg, "X-Request-Id")
                   /\ ~HeaderEmpty(msg, "Message-Timestamp")
                   /\ mapCalled
                   /\ ret.outcome = "ok")
        /\ (resp.written /\ resp.status = StatusOK) => resp.body = ret.bytes
        /\ (resp.written /\ resp.status # StatusOK) => resp.body = <<>>

\* C6: when the body decodes and X-Request-Id or Message-Timestamp is
\* missing or empty, mapHandler returns without writing a status or a body
\* and without calling mapBrightcoveVideo.
C6_MissingHeaderAbandoned ==
    (/\ op = "mapHandler"
     /\ msg.body.kind \in {"object", "object+trailing", "null"}
     /\ (HeaderEmpty(msg, "X-Request-Id") \/ HeaderEmpty(msg, "Message-Timestamp")))
    => (/\ resp = NoResponse
        /\ ~mapCalled
        /\ ret = NoRet
        /\ ~panicked)

C6_Witness ==
    /\ op = "mapHandler"
    /\ msg.body.kind = "object"
    /\ RequiredValid(RecordOf(msg.body))
    /\ "X-Request-Id" \in DOMAIN msg.headers
    /\ "Message-Timestamp" \notin DOMAIN msg.headers
    /\ resp = NoResponse
    /\ ~mapCalled

\* C7: consume of a message that passes the origin filter but has no
\* non-empty X-Request-Id or Message-Timestamp rejects it: one warning
\* "Mapping error: [...]" is logged, nothing is handed to the producer,
\* mapBrightcoveVideo is not called, and the callback returns normally.
C7_MissingHeaderRejected ==
    [][(/\ ConsumeStep
        /\ FromBrightcove(msg)
        /\ (HeaderEmpty(msg, "X-Request-Id") \/ HeaderEmpty(msg, "Message-Timestamp")))
       => (/\ produced' = produced
           /\ ~mapCalled'
           /\ ret'.outcome = "error"
           /\ ret'.bytes = <<>>
           /\ logs' = <<LogLine("WARN", "Mapping error: [" \o ret'.err \o "]", <<>>)>>
           /\ msg.body.kind \in {"object", "null"} =>
                 ret'.err = IF HeaderEmpty(msg, "X-Request-Id")
                            THEN RequestIdMissingText ELSE TimestampMissingText
           /\ ~panicked'
           /\ running')]_vars

C7_Witness ==
    /\ op = "consume"
    /\ FromBrightcove(msg)
    /\ msg.body.kind = "object"
    /\ RequiredValid(RecordOf(msg.body))
    /\ ~HeaderEmpty(msg, "X-Request-Id")
    /\ "Message-Timestamp" \in DOMAIN msg.headers
    /\ HeaderEmpty(msg, "Message-Timestamp")
    /\ ret.err = TimestampMissingText
    /\ Len(logs) = 1

\* C8: with valid uuid, id and updated_at, a record whose name is absent
\* or empty is still mapped, and the payload's mediaType is "video/".
C8_MissingNameMapped ==
    (MapReturned /\ RequiredValid(args.rec) /\ AbsentOrEmpty(args.rec, "name")) =>
        /\ ret.outcome = "ok"
        /\ StringOf(PayloadOf(ret.bytes), K_mediaType) = viodeMediaTypeBase

HasDot(name) == \E j \in 1..Len(name) : name[j] = "."

\* what follows the last "." of name; nothing if name has no "."
AfterLastDot(name) ==
    IF HasDot(name)
    THEN SubSeq(name, Max({j \in 1..Len(name) : name[j] = "."}) + 1, Len(name))
    ELSE <<>>

HasSeparator(s) == \E j \in 1..Len(s) : s[j] = "/"

\* C9 as stated: for a name string, mediaType is "video/" followed by what
\* follows the last "." of name, also when a path separator follows that
\* "."; "video/" alone when name has no ".".
C9_MediaTypeAfterLastDot ==
    (MapReturned /\ RequiredValid(args.rec) /\ NonEmptyString(args.rec, "name")) =>
        /\ ret.outcome = "ok"
        /\ StringOf(PayloadOf(ret.bytes), K_mediaType)
              = viodeMediaTypeBase \o AfterLastDot(args.rec["name"].s)

\* C9 as amended: for a name string, mediaType is "video/" followed by what
\* follows the last "." of name (case unchanged) when no path separator
\* follows that "."; it is "video/" alone when a path separator follows
\* the last "." or name has no ".".
C9_MediaTypeOfExtension ==
    (MapReturned /\ RequiredValid(args.rec) /\ NonEmptyString(args.rec, "name")) =>
        /\ ret.outcome = "ok"
        /\ StringOf(PayloadOf(ret.bytes), K_mediaType)
              = viodeMediaTypeBase \o
                    (IF HasSeparator(AfterLastDot(args.rec["name"].s))
                     THEN <<>>
                     ELSE AfterLastDot(args.rec["name"].s))

C9_Witness ==
    /\ MapReturned
    /\ RequiredValid(args.rec)
    /\ NonEmptyString(args.rec, "name")
    /\ args.rec["name"].s = <<".", "B">>
    /\ ret.outcome = "ok"
    /\ StringOf(PayloadOf(ret.bytes), K_mediaType) = viodeMediaTypeBase \o <<"B">>

\* C10: decoding the payload string of a produced event yields the
\* record's uuid, which is also what follows the base URI in contentUri,
\* exactly one identifier with the Brightcove authority and the record's
\* id, and the lastModified of the event.
C10_PayloadRoundTrip ==
    (MapReturned /\ ret.outcome = "ok") =>
        LET e == EventOf(ret.bytes)
            p == PayloadOf(ret.bytes)
        IN  /\ IsStringMember(e, K_contentUri)
            /\ IsStringMember(e, K_payload)
            /\ IsStringMember(e, K_lastModified)
            /\ IsStringMember(p, K_uuid)
            /\ StringOf(p, K_uuid) = args.rec["uuid"].s
            /\ StringOf(e, K_contentUri) = videoContentUriBase \o StringOf(p, K_uuid)
            /\ HasMember(p, K_identifiers)
            /\ MemberOf(p, K_identifiers).t = "array"
            /\ Len(MemberOf(p, K_identifiers).v) = 1
            /\ LET i == MemberOf(p, K_identifiers).v[1]
               IN  /\ IsStringMember(i, K_authority)
                   /\ StringOf(i, K_authority) = brigthcoveAuthority
                   /\ IsStringMember(i, K_identifierValue)
                   /\ StringOf(i, K_identifierValue) = args.rec["id"].s
            /\ IsStringMember(p, K_lastModified)
            /\ StringOf(p, K_lastModified) = StringOf(e, K_lastModified)

C10_Witness ==
    /\ MapReturned
    /\ ret.outcome = "ok"
    /\ args.rec["uuid"].s = UuidSample
    /\ args.lastModified = TimestampSample
    /\ StringOf(PayloadOf(ret.bytes), K_uuid) = UuidSample
    /\ StringOf(EventOf(ret.bytes), K_lastModified) = <<"t", ReplacementChar>>

===========================================================================
